---- MODULE Spec2Model ----
(***************************************************************************)
(* Alert.Ai: the emergency confirmation and notification pipeline.         *)
(*                                                                         *)
(* Part 1: FireDetectionIntegration (src/fire_detection_integration.py),   *)
(* the detection confirmation state machine.  Confidences are percentages  *)
(* (0.80 is 80), times are whole seconds of time.time().                   *)
(*                                                                         *)
(* Part 2: GeminiVerifier (src/server/utils/gemini_verification_local.py), *)
(* the verification gate.  A response text is a sequence of characters.    *)
(***************************************************************************)
EXTENDS Integers, Sequences, FiniteSets, TLC

\* ---------------------------------------------------------------- constants
\* Python's None, for fire_detected_start and last_detection_image.
None == -1

\* twilio_whatsapp.py lines 32-36: EMERGENCY_CONTACT_1 to EMERGENCY_CONTACT_3
contact_slots == 3

confidence_threshold == 80
confirmation_duration == 5
emergency_cooldown == 300

\* ------------------------------------------------------------------- bounds
\* time.time() when the object is constructed: an epoch reading, far beyond
\* emergency_cooldown seconds after 0.
StartTime == 1000
\* Spec follows the clock second by second for Horizon seconds after
\* construction, SpecLong in steps of a confirmation or a cooldown for
\* LongHorizon seconds.
Horizon == 6
LongHorizon == 620
\* SpecLong follows at most MaxCalls calls.
MaxCalls == 6
\* SpecConc follows NThreads threads for ConcHorizon seconds.
NThreads == 2
ConcHorizon == 5
\* SpecGate takes response texts of at most MaxLen characters.
MaxLen == 5
\* send_fire_emergency is followed for at most MaxSends posts.
MaxSends == 2
\* SpecServer follows MaxReports requests to /emergency, SpecRepeat MaxRepeats,
\* with at most MaxDbUsers users registered.
MaxReports == 1
MaxRepeats == 2
MaxDbUsers == 1
\* SpecDispatch and SpecRace follow MaxDispatches calls of the dispatcher, for
\* the incident ids 1..MaxIds.
MaxDispatches == 2
MaxIds == 2
MaxUsers == 3
MaxRows == 4
MaxTicks == 2


\* Confidences a sample carries: below, at and above the threshold.
Conf == {50, 80, 85}
\* image_path arguments: "" (none, or a file that does not exist) and a file.
Images == {"", "frame.jpg"}
\* What requests.post does in send_fire_emergency.
Outcomes == {"ok", "http_error", "connection_error", "timeout", "exception"}
Failures == Outcomes \ {"ok"}
\* Seconds that pass between two calls, and the last second followed.
Deltas == {0, 1, confirmation_duration}
LongDeltas == {confirmation_duration, emergency_cooldown}
Steps == [by : Deltas, until : {StartTime + Horizon}, count : {0}]
LongSteps == [by : LongDeltas, until : {StartTime + LongHorizon}, count : {1}]

VARIABLES
    clock,                 \* time.time() at the last call
    fire_detected_start,   \* self.fire_detected_start
    last_fire_confidence,  \* self.last_fire_confidence
    last_detection_image,  \* self.last_detection_image
    emergency_sent,        \* self.emergency_sent
    last_emergency_time,   \* self.last_emergency_time
    sent,                  \* the posts made to /emergency, in order
    delivery,              \* what requests.post did with the last of them
    op,                    \* history: the operation called last
    runStart,              \* history: first sample of the unbroken run of high samples
    hist,                  \* history: the shape of the calls made so far
    emitted_at,            \* history: when process_detection last posted, no reset since
    calls,                 \* history: the calls counted against MaxCalls
    posts_since_reset,     \* history: the posts made since the last reset_emergency_state
    pc,                    \* SpecConc: the line each thread's process_detection is at
    loc,                   \* SpecConc: each thread's current_time, confidence, detection_duration
    gate_in,               \* SpecGate: the call of verify_emergency_with_gemini
    gate_out,              \* SpecGate: what it returned
    available,             \* gemini_verifier.available
    client,                \* twilio_notifier.client is not None
    emergency_contacts,    \* twilio_notifier.emergency_contacts
    processed_emergency_ids, \* twilio_notifier.processed_emergency_ids
    ledger,                \* the rows of the emergencies table, in order of id
    db_users,              \* the rows of the users table, newest first
    whatsapp,              \* the calls of client.messages.create, in order
    alerts,                \* the user notifications made ("ALERT SENT TO"), in order
    request,               \* history: the last request /emergency received
    response,              \* history: what it answered
    called,                \* history: what the handler called for it
    repeated,              \* history: its report is the report of the request before
    dispatched,            \* history: the last call of send_alert_to_users
    handled,               \* history: the requests and calls counted against the bounds
    wpc,                   \* SpecRace: the line each thread's send_whatsapp_alert is at
    wid,                   \* SpecRace: each thread's emergency_id
    matched,               \* the last call of get_nearby_users: arguments and return
    call_order,            \* the calls the last /emergency request made, in order
    queried                \* the query of the emergencies table just answered, and its rows

fireVars == <<clock, fire_detected_start, last_fire_confidence, last_detection_image,
              emergency_sent, last_emergency_time, sent, delivery>>
histVars == <<op, runStart, hist, emitted_at, calls, posts_since_reset>>
concVars == <<pc, loc>>
gateVars == <<gate_in, gate_out>>
cfgVars == <<available, client, emergency_contacts>>
storeVars == <<processed_emergency_ids, ledger, db_users>>
sendVars == <<whatsapp, alerts>>
reqVars == <<request, response, called, repeated>>
raceVars == <<wpc, wid>>
askVars == <<matched, call_order, queried>>
srvVars == <<cfgVars, storeVars, sendVars, reqVars, dispatched, handled, raceVars, askVars>>
vars == <<fireVars, histVars, concVars, gateVars, srvVars>>

\* ------------------------------------------------------- process_detection
\* A variant of line 162 with a strict comparison.
IsHigh_strict(c) == c > confidence_threshold

\* line 162
IsHigh(c) == c >= confidence_threshold

\* A variant of line 183 with a strict comparison.
Confirmed_strict(duration, flag) == duration > confirmation_duration /\ ~flag

\* line 183
Confirmed(duration, flag) == duration >= confirmation_duration /\ ~flag

\* line 187
CooldownActive(now, last) == now - last < emergency_cooldown

\* lines 164-166: the start of the episode after a high sample
StartAfterHigh(start, now) == IF start = None THEN now ELSE start

\* A variant of line 218 that keeps the episode running.
StartAfterLow_keeps(start) == start

\* line 218: the start of the episode after a low sample
StartAfterLow(start) == None

\* A variant of lines 196-197 that posts without recording it.
MarkSent_forgets(now) == [emergency_sent |-> FALSE, last_emergency_time |-> 0]

\* lines 196-197: the flags as set before the post
MarkSent(now) == [emergency_sent |-> TRUE, last_emergency_time |-> now]

\* lines 175-178, with latest_image_path None (check_for_new_images not run)
ImageAfter(img, old) == IF img # "" THEN img ELSE old

\* ----------------------------------------------------- send_fire_emergency
\* lines 227-240: emergency_data
EmergencyData(now, via) ==
    [id |-> now, timestamp |-> now, via |-> via]

\* A variant of lines 268-311 that clears the flag when the post fails.
FlagAfterSend_resets(outcome, flag) == IF outcome = "ok" THEN flag ELSE FALSE

\* lines 256-311: what send_fire_emergency leaves in emergency_sent,
\* whatever requests.post did
FlagAfterSend(outcome, flag) == flag

\* lines 221-311
send_fire_emergency(now, via, outcome) ==
    /\ Len(sent) < MaxSends
    /\ sent' = Append(sent, EmergencyData(now, via))
    /\ delivery' = outcome

\* lines 156-219
process_detection(c, img, d) ==
    LET now == clock + d.by IN
    /\ now <= d.until
    /\ clock' = now
    /\ IF IsHigh(c)
       THEN LET start == StartAfterHigh(fire_detected_start, now)
                duration == now - start
            IN  /\ fire_detected_start' = start
                /\ last_fire_confidence' = c
                /\ last_detection_image' = ImageAfter(img, last_detection_image)
                /\ IF Confirmed(duration, emergency_sent)
                   THEN IF CooldownActive(now, last_emergency_time)
                        THEN UNCHANGED <<emergency_sent, last_emergency_time, sent, delivery>>
                        ELSE \E outcome \in Outcomes :
                             /\ emergency_sent' =
                                  FlagAfterSend(outcome, MarkSent(now).emergency_sent)
                             /\ last_emergency_time' = MarkSent(now).last_emergency_time
                             /\ send_fire_emergency(now, "process_detection", outcome)
                   ELSE UNCHANGED <<emergency_sent, last_emergency_time, sent, delivery>>
       ELSE /\ fire_detected_start' = StartAfterLow(fire_detected_start)
            /\ UNCHANGED <<last_fire_confidence, last_detection_image,
                           emergency_sent, last_emergency_time, sent, delivery>>

\* -------------------------------------------------- reset_emergency_state
\* A variant of line 427 that leaves the cooldown timer running.
reset_emergency_state_keeps_timer(d) ==
    /\ clock + d.by <= d.until
    /\ clock' = clock + d.by
    /\ fire_detected_start' = None
    /\ emergency_sent' = FALSE
    /\ last_fire_confidence' = 0
    /\ last_detection_image' = None
    /\ UNCHANGED <<last_emergency_time, sent, delivery>>

\* lines 421-428
reset_emergency_state(d) ==
    /\ clock + d.by <= d.until
    /\ clock' = clock + d.by
    /\ fire_detected_start' = None
    /\ emergency_sent' = FALSE
    /\ last_fire_confidence' = 0
    /\ last_detection_image' = None
    /\ last_emergency_time' = 0
    /\ UNCHANGED <<sent, delivery>>

\* --------------------------------------------------- retry_last_emergency
\* A variant of line 432 that never refuses.
RetryBlocked_never(flag) == FALSE

\* line 432
RetryBlocked(flag) == flag

\* lines 430-444
retry_last_emergency(d) ==
    LET now == clock + d.by IN
    /\ now <= d.until
    /\ clock' = now
    /\ UNCHANGED <<fire_detected_start, last_fire_confidence, last_detection_image,
                   last_emergency_time>>
    /\ IF RetryBlocked(emergency_sent)
       THEN UNCHANGED <<emergency_sent, sent, delivery>>
       ELSE IF last_fire_confidence < confidence_threshold
            THEN UNCHANGED <<emergency_sent, sent, delivery>>
            ELSE \E outcome \in Outcomes :
                 /\ emergency_sent' = FlagAfterSend(outcome, FALSE)
                 /\ send_fire_emergency(now, "retry_last_emergency", outcome)

\* ------------------------------ process_detection, one line at a time
\* Threads that call process_detection on the same object, as callers of
\* model_detection_callback may; the object holds no lock.
Threads == 1..NThreads

\* The locals of a call: current_time, confidence, detection_duration.
Idle == [now |-> None, c |-> 0, duration |-> None]

Goto(t, l) == pc' = [pc EXCEPT ![t] = l]

\* line 158: current_time = time.time()
L158(t, c, d) ==
    /\ pc[t] = "idle"
    /\ UNCHANGED <<histVars, gateVars, srvVars>>
    /\ clock + d <= StartTime + ConcHorizon
    /\ clock' = clock + d
    /\ loc' = [loc EXCEPT ![t] = [now |-> clock + d, c |-> c, duration |-> None]]
    /\ Goto(t, "L162")
    /\ UNCHANGED <<fire_detected_start, last_fire_confidence, last_detection_image,
                   emergency_sent, last_emergency_time, sent, delivery>>

\* line 162
L162(t) ==
    /\ pc[t] = "L162"
    /\ UNCHANGED <<histVars, gateVars, srvVars>>
    /\ Goto(t, IF IsHigh(loc[t].c) THEN "L164" ELSE "L213")
    /\ UNCHANGED <<fireVars, loc>>

\* lines 164-166
L164(t) ==
    /\ pc[t] = "L164"
    /\ UNCHANGED <<histVars, gateVars, srvVars>>
    /\ fire_detected_start' = StartAfterHigh(fire_detected_start, loc[t].now)
    /\ Goto(t, "L174")
    /\ UNCHANGED <<clock, last_fire_confidence, last_detection_image,
                   emergency_sent, last_emergency_time, sent, delivery, loc>>

\* lines 174-178, image_path left at its default
L174(t) ==
    /\ pc[t] = "L174"
    /\ UNCHANGED <<histVars, gateVars, srvVars>>
    /\ last_fire_confidence' = loc[t].c
    /\ last_detection_image' = ImageAfter("", last_detection_image)
    /\ Goto(t, "L181")
    /\ UNCHANGED <<clock, fire_detected_start, emergency_sent, last_emergency_time,
                   sent, delivery, loc>>

\* line 181: the subtraction raises TypeError when another call's low sample
\* has set fire_detected_start to None, and the call ends
L181(t) ==
    /\ pc[t] = "L181"
    /\ UNCHANGED <<histVars, gateVars, srvVars>>
    /\ IF fire_detected_start = None
       THEN /\ loc' = [loc EXCEPT ![t] = Idle]
            /\ Goto(t, "idle")
       ELSE /\ loc' = [loc EXCEPT ![t].duration = loc[t].now - fire_detected_start]
            /\ Goto(t, "L183")
    /\ UNCHANGED fireVars

\* lines 183, 202, 206
L183(t) ==
    /\ pc[t] = "L183"
    /\ UNCHANGED <<histVars, gateVars, srvVars>>
    /\ IF Confirmed(loc[t].duration, emergency_sent)
       THEN Goto(t, "L185") /\ UNCHANGED loc
       ELSE Goto(t, "idle") /\ loc' = [loc EXCEPT ![t] = Idle]
    /\ UNCHANGED fireVars

\* lines 185-190
L185(t) ==
    /\ pc[t] = "L185"
    /\ UNCHANGED <<histVars, gateVars, srvVars>>
    /\ IF CooldownActive(loc[t].now, last_emergency_time)
       THEN Goto(t, "idle") /\ loc' = [loc EXCEPT ![t] = Idle]
       ELSE Goto(t, "L196") /\ UNCHANGED loc
    /\ UNCHANGED fireVars

\* line 196
L196(t) ==
    /\ pc[t] = "L196"
    /\ UNCHANGED <<histVars, gateVars, srvVars>>
    /\ emergency_sent' = MarkSent(loc[t].now).emergency_sent
    /\ Goto(t, "L197")
    /\ UNCHANGED <<clock, fire_detected_start, last_fire_confidence,
                   last_detection_image, last_emergency_time, sent, delivery, loc>>

\* line 197
L197(t) ==
    /\ pc[t] = "L197"
    /\ UNCHANGED <<histVars, gateVars, srvVars>>
    /\ last_emergency_time' = MarkSent(loc[t].now).last_emergency_time
    /\ Goto(t, "L200")
    /\ UNCHANGED <<clock, fire_detected_start, last_fire_confidence,
                   last_detection_image, emergency_sent, sent, delivery, loc>>

\* line 200: send_fire_emergency, its id and timestamp read from the clock
L200(t) ==
    /\ pc[t] = "L200"
    /\ UNCHANGED <<histVars, gateVars, srvVars>>
    /\ \E outcome \in Outcomes :
          /\ send_fire_emergency(clock, "process_detection", outcome)
          /\ emergency_sent' = FlagAfterSend(outcome, emergency_sent)
    /\ loc' = [loc EXCEPT ![t] = Idle]
    /\ Goto(t, "idle")
    /\ UNCHANGED <<clock, fire_detected_start, last_fire_confidence,
                   last_detection_image, last_emergency_time>>

\* lines 213-218
L213(t) ==
    /\ pc[t] = "L213"
    /\ UNCHANGED <<histVars, gateVars, srvVars>>
    /\ fire_detected_start' = StartAfterLow(fire_detected_start)
    /\ loc' = [loc EXCEPT ![t] = Idle]
    /\ Goto(t, "idle")
    /\ UNCHANGED <<clock, last_fire_confidence, last_detection_image,
                   emergency_sent, last_emergency_time, sent, delivery>>

\* ------------------------------------------------------- the verification gate
\* Characters of a response text.
Alphabet == {"Y", "E", "S", "N", "o", " "}
Texts == UNION {[1..n -> Alphabet] : n \in 0..MaxLen}

\* str.lower, on one character and on a text
LowerChar(ch) ==
    CASE ch = "Y" -> "y"
      [] ch = "E" -> "e"
      [] ch = "S" -> "s"
      [] ch = "N" -> "n"
      [] ch = "O" -> "o"
      [] OTHER -> ch
Lower(text) == [i \in 1..Len(text) |-> LowerChar(text[i])]

\* str.strip
RECURSIVE LStrip(_)
LStrip(text) ==
    IF text # <<>> /\ Head(text) = " " THEN LStrip(Tail(text)) ELSE text
RECURSIVE RStrip(_)
RStrip(text) ==
    IF text # <<>> /\ text[Len(text)] = " "
    THEN RStrip(SubSeq(text, 1, Len(text) - 1))
    ELSE text
Strip(text) == RStrip(LStrip(text))

\* the operator `in` on strings
In(sub, text) ==
    \E i \in 1..(Len(text) - Len(sub) + 1) : SubSeq(text, i, i + Len(sub) - 1) = sub

Yes == <<"y", "e", "s">>
No == <<"n", "o">>

\* A variant of lines 222-228 that takes any yes for agreement.
ParseGeminiResponse_lenient(response_text) ==
    LET text == Lower(Strip(response_text)) IN In(Yes, text)

\* lines 218-228: _parse_gemini_response
ParseGeminiResponse(response_text) ==
    LET text == Lower(Strip(response_text)) IN
    IF In(Yes, text) /\ ~In(No, text) THEN TRUE
    ELSE IF In(No, text) /\ ~In(Yes, text) THEN FALSE
    ELSE FALSE

\* Words a file name or URL may hold, and the emergency types reported.
PathWords == {"fire", "flame", "blood", "medical", "security", "office"}
Paths == [local : BOOLEAN, words : SUBSET PathWords]
EmergencyTypes == {"Fire", "Bleeding", "Medical Emergency", "Security Breach", "Smoke"}

\* emergency_type.lower() == "fire", and "<word>" in emergency_type.lower()
TypeIsFire(etype) == etype = "Fire"
TypeHas(word, etype) ==
    \/ word = "bleeding" /\ etype = "Bleeding"
    \/ word = "medical" /\ etype = "Medical Emergency"
    \/ word = "security" /\ etype = "Security Breach"

\* lines 230-294: _simulate_gemini_analysis; "None" is the URL branch that
\* falls off the end of the function
SimulateGeminiAnalysis(path, etype) ==
    LET has(w) == w \in path.words IN
    IF path.local
    THEN IF has("fire") \/ has("flame")
         THEN (IF TypeIsFire(etype) THEN "True" ELSE "False")
         ELSE IF has("blood") \/ has("bleeding") \/ has("injury")
         THEN (IF TypeHas("bleeding", etype) \/ TypeHas("blood", etype)
               THEN "True" ELSE "False")
         ELSE IF has("medical") \/ has("ambulance")
         THEN (IF TypeHas("medical", etype) THEN "True" ELSE "False")
         ELSE IF has("security") \/ has("breach") \/ has("intrusion")
         THEN (IF TypeHas("security", etype) THEN "True" ELSE "False")
         ELSE IF has("normal") \/ has("office") \/ has("fake")
         THEN "False"
         ELSE "True"
    ELSE IF has("fire")
         THEN (IF TypeIsFire(etype) THEN "True" ELSE "None")
         ELSE IF has("office") THEN "False"
         ELSE "True"

\* What the call of the oracle comes to (lines 61-216): a response text, or
\* None after a missing image, a failed download, a subprocess error or a
\* timeout, or an exception.
OracleFailures == {"missing_image", "download_failed", "subprocess_error",
                   "timeout", "exception"}
Answered(text) == [kind |-> "text", text |-> text]
Failed(kind) == [kind |-> kind, text |-> <<>>]

\* The calls followed: every response text for one report, and every way of
\* getting no response for every path and type.
AnsweredPaths == {[local |-> TRUE, words |-> {"fire"}]}
GateCalls ==
    {[available |-> TRUE, oracle |-> Answered(t), path |-> p, etype |-> "Fire"] :
        t \in Texts, p \in AnsweredPaths}
    \cup
    {[available |-> a, oracle |-> Failed(k), path |-> p, etype |-> e] :
        a \in BOOLEAN, k \in OracleFailures, p \in Paths, e \in EmergencyTypes}

\* lines 19-55: verify_emergency_with_gemini
verify_emergency_with_gemini(call) ==
    IF ~call.available
    THEN SimulateGeminiAnalysis(call.path, call.etype)
    ELSE IF call.oracle.kind # "text"
    THEN SimulateGeminiAnalysis(call.path, call.etype)
    ELSE IF ParseGeminiResponse(call.oracle.text) THEN "True" ELSE "False"

Verify ==
    /\ gate_out = "pending"
    /\ gate_out' = verify_emergency_with_gemini(gate_in)
    /\ UNCHANGED <<gate_in, fireVars, histVars, concVars, srvVars>>

\* ------------------------------------------------------------------ server
\* src/combined_server.py with src/server/utils: the /emergency handler, the
\* emergencies and users tables, the matcher and the dispatcher.

\* ---- src/server/utils/users.py
\* Positions are millimetres along one line; haversine_distance of two points
\* of the line is the length between them. Lines 26-27: distances are metres.
Metre == 1000
threshold == 100
SiteA == 0
SiteB == 10000 * Metre
SiteFar == 5000 * Metre
Sites == {SiteB, SiteFar}
RegisterSites == {SiteB}

Distance(a, b) == IF a >= b THEN a - b ELSE b - a

\* lines 73-110: load_users, the mock users (all carry an fcm_token)
load_users ==
    << [user_id |-> "user_001", location |-> SiteA, fcm_token |-> TRUE],
       [user_id |-> "user_002", location |-> SiteB + 15 * Metre, fcm_token |-> TRUE],
       [user_id |-> "user_003", location |-> SiteB + 90 * Metre, fcm_token |-> TRUE],
       [user_id |-> "user_004", location |-> SiteB + 1200 * Metre, fcm_token |-> TRUE] >>

\* line 53: "'location' not in user or not user['location']"; a record
\* without the key and one with an empty value both have location None here
HasLocation(user) == user.location # None

\* line 64: "distance <= threshold"
Within_strict(distance) == distance < threshold * Metre
Within(distance) == distance <= threshold * Metre

\* line 66: round(distance, 2), to the centimetre
Round2(distance) == ((distance + 5) \div 10) * 10

\* lines 65-66: a copy of the record with distance_meters added
WithDistance(user, distance) ==
    [user_id |-> user.user_id, location |-> user.location, fcm_token |-> user.fcm_token,
     distance_meters |-> Round2(distance)]

\* line 65: user.copy() leaves the records of the list passed in as they were
InputAfter_annotated(emergency_location, users) ==
    [i \in 1..Len(users) |->
        IF HasLocation(users[i]) /\ Within(Distance(emergency_location, users[i].location))
        THEN WithDistance(users[i], Distance(emergency_location, users[i].location))
        ELSE users[i]]
InputAfter(emergency_location, users) == users

\* lines 48-50: the list passed in followed by the rows of the users table
AllUsers(users) == users \o db_users

\* lines 39-71: get_nearby_users
get_nearby_users(emergency_location, users) ==
    LET all_users == AllUsers(users)
        Near(user) == /\ HasLocation(user)
                      /\ Within(Distance(emergency_location, user.location))
        nearby_users == SelectSeq(all_users, Near)
    IN  [i \in 1..Len(nearby_users) |->
            WithDistance(nearby_users[i],
                         Distance(emergency_location, nearby_users[i].location))]

\* A call of get_nearby_users as the variable matched keeps it.
Matched(emergency_location, users) ==
    [called |-> TRUE, emergency_location |-> emergency_location, users |-> users,
     all_users |-> AllUsers(users),
     users_after |-> InputAfter(emergency_location, users),
     nearby_users |-> get_nearby_users(emergency_location, users)]

\* ---- src/server/utils/db_utils.py
\* uuid4 of register_user_to_db: the n-th user registered
WebIds == <<"web_1", "web_2", "web_3", "web_4">>

\* lines 231-256: a row of get_all_users_from_db has no fcm_token
WebUser(n, location) == [user_id |-> WebIds[n], location |-> location, fcm_token |-> FALSE]

\* lines 84: cursor.lastrowid of an AUTOINCREMENT key
NextId_constant(rows) == 1
NextId(rows) == Len(rows) + 1

\* lines 62-90: log_emergency_to_db; line 33: created_at is CURRENT_TIMESTAMP,
\* the second of the insertion
Row(rows, verified) ==
    [id |-> NextId(rows), gemini_verified |-> verified, created_at |-> clock]

\* seconds of the 'hours' of line 127
Hour == 3600

\* lines 126-127: the WHERE clause
InWindow_unverified(row, now, window) == row.created_at > now - window
InWindow(row, now, window) == row.gemini_verified /\ row.created_at > now - window

\* lines 96, 128: ORDER BY created_at DESC; rows of one second come in any order
RECURSIVE Orderings(_)
Orderings(rows) ==
    IF rows = {} THEN {<<>>}
    ELSE UNION {{<<row>> \o s : s \in Orderings(rows \ {row})} :
                   row \in {r \in rows : \A other \in rows : r.created_at >= other.created_at}}

\* lines 92-116: get_all_emergencies, the results it can return
get_all_emergencies == Orderings({ledger[i] : i \in 1..Len(ledger)})

\* lines 118-148: get_recent_emergencies, the results it can return; window
\* is the seconds of its argument hours. The rows carry no gemini_verified.
get_recent_emergencies(window) ==
    Orderings({[id |-> ledger[i].id, created_at |-> ledger[i].created_at] :
                  i \in {j \in 1..Len(ledger) : InWindow(ledger[j], clock, window)}})

\* combined_server.py line 216: hours=0.5; db_utils.py line 118: hours=2
Windows == {Hour \div 2, 2 * Hour}

\* No query is being answered.
NoQuery == [query |-> "none", rows |-> <<>>, at |-> None, since |-> None, n |-> 0]

\* ---- src/server/utils/twilio_whatsapp.py
Contacts == <<"whatsapp:+1", "whatsapp:+2", "whatsapp:+3">>

\* line 130: "if emergency_id"
Truthy(emergency_id) == emergency_id # None /\ emergency_id # 0

\* lines 63-73: is_emergency_already_processed
is_emergency_already_processed(emergency_id) == emergency_id \in processed_emergency_ids

\* lines 121-131: the returns of send_whatsapp_alert before any message
WhatsAppSkipped(emergency_id) ==
    \/ ~client
    \/ emergency_contacts = <<>>
    \/ (Truthy(emergency_id) /\ is_emergency_already_processed(emergency_id))

\* line 71, reached from line 130
ProcessedAfter_never(emergency_id) == processed_emergency_ids
ProcessedAfter(emergency_id) ==
    IF client /\ emergency_contacts # <<>> /\ Truthy(emergency_id)
    THEN processed_emergency_ids \cup {emergency_id}
    ELSE processed_emergency_ids

\* lines 147-161: one client.messages.create for each contact
Messages(emergency_id) ==
    IF WhatsAppSkipped(emergency_id) THEN <<>>
    ELSE [i \in 1..Len(emergency_contacts) |->
            [emergency_id |-> emergency_id, to |-> emergency_contacts[i]]]

\* line 164: success_count > 0; creates[i] is whether the i-th create returned
WhatsAppSuccess(emergency_id, creates) ==
    /\ ~WhatsAppSkipped(emergency_id)
    /\ \E i \in 1..Len(emergency_contacts) : creates[i]

\* ---- src/server/utils/notifications.py
\* line 35: user['fcm_token'] raises KeyError for the first user without one
FirstWithoutToken(users) ==
    LET bad == {i \in 1..Len(users) : ~users[i].fcm_token}
    IN IF bad = {} THEN 0 ELSE CHOOSE i \in bad : \A j \in bad : i <= j

NotifyRaises(users) == FirstWithoutToken(users) # 0

\* lines 28-36: the users whose "ALERT SENT TO" line 32 is reached
Notified(users) ==
    IF NotifyRaises(users) THEN SubSeq(users, 1, FirstWithoutToken(users)) ELSE users

Notifications(users, emergency_id) ==
    [i \in 1..Len(Notified(users)) |->
        [emergency_id |-> emergency_id, user_id |-> users[i].user_id]]

CreateResults == [1..Len(emergency_contacts) -> BOOLEAN]

\* lines 5-39: send_alert_to_users
send_alert_to_users(users, emergency_id, creates) ==
    /\ processed_emergency_ids' = ProcessedAfter(emergency_id)
    /\ whatsapp' = whatsapp \o Messages(emergency_id)
    /\ alerts' = alerts \o Notifications(users, emergency_id)
    /\ dispatched' = [emergency_id |-> emergency_id,
                      users |-> [i \in 1..Len(users) |-> users[i].user_id],
                      whatsapp_success |-> WhatsAppSuccess(emergency_id, creates),
                      messages |-> Len(Messages(emergency_id)),
                      notified |-> Len(Notified(users)),
                      raised |-> NotifyRaises(users),
                      again |-> \E i \in 1..Len(alerts) : alerts[i].emergency_id = emergency_id]

\* ---- src/combined_server.py
RequiredFields == {"emergency_type", "location", "image_url", "timestamp", "building"}
LocationShapes == {"lat_lon", "no_lat", "no_lon", "not_a_dict"}

\* The evidence a report names, with the type it reports.
Evidence ==
    {[image_url |-> [local |-> TRUE, words |-> {}], emergency_type |-> "Fire"],
     [image_url |-> [local |-> TRUE, words |-> {"fire"}], emergency_type |-> "Fire"],
     [image_url |-> [local |-> TRUE, words |-> {"fire"}], emergency_type |-> "Smoke"],
     [image_url |-> [local |-> TRUE, words |-> {"office"}], emergency_type |-> "Fire"],
     [image_url |-> [local |-> FALSE, words |-> {"fire"}], emergency_type |-> "Smoke"]}
\* What the oracle does for a request: it answers YES or NO, or the call fails.
OracleYes == Answered(<<"Y", "E", "S">>)
OracleNo == Answered(<<"N", "o">>)
ServerOracle == {OracleYes, OracleNo, Failed("timeout")}
\* What else fails while a request is handled: nothing, sqlite in
\* log_emergency_to_db, sqlite in get_all_users_from_db. At most one thing
\* fails for one request.
Faults == {"none", "db", "users"}
Envs ==
    [oracle : ServerOracle, fault : {"none"}] \cup [oracle : {OracleYes}, fault : Faults]
    \cup [oracle : {OracleNo}, fault : {"db"}]
NoEnv == [oracle |-> Failed("none"), fault |-> "none"]

Report(fields, shape, evidence, image_is_str, location, simulation) ==
    [fields |-> fields, shape |-> shape, emergency_type |-> evidence.emergency_type,
     image_url |-> evidence.image_url, image_is_str |-> image_is_str,
     location |-> location, simulation |-> simulation]

AnEvidence == [image_url |-> [local |-> TRUE, words |-> {"fire"}], emergency_type |-> "Fire"]

\* Reports that pass validation. image_is_str is whether image_url is a str:
\* _is_local_file (gemini_verification_local.py line 59) raises for other values.
ValidReports ==
    {Report(RequiredFields, "lat_lon", ev, TRUE, location, simulation) :
        ev \in Evidence, location \in Sites, simulation \in BOOLEAN}
    \cup
    {Report(RequiredFields, "lat_lon", AnEvidence, FALSE, location, simulation) :
        location \in Sites, simulation \in BOOLEAN}

\* Reports that lack one field, lack everything, or whose location lacks a coordinate.
InvalidReports ==
    {Report(RequiredFields \ {f}, "lat_lon", AnEvidence, TRUE, SiteB, FALSE) :
        f \in RequiredFields}
    \cup
    {Report({}, "lat_lon", AnEvidence, TRUE, SiteB, FALSE)}
    \cup
    {Report(RequiredFields, shape, AnEvidence, TRUE, SiteB, FALSE) :
        shape \in LocationShapes \ {"lat_lon"}}

\* A request: a report and what its handling meets.
Requests ==
    [report : ValidReports, env : Envs] \cup [report : InvalidReports, env : {NoEnv}]


\* lines 50-80: the validation
Valid_lax(report) == report.fields = RequiredFields
Valid(report) ==
    /\ report.fields = RequiredFields
    /\ report.shape = "lat_lon"

GateCall(report, env) ==
    [available |-> available, oracle |-> env.oracle,
     path |-> report.image_url, etype |-> report.emergency_type]

\* lines 87-91: the call raises when image_url is not a str
GateRaises(report) == ~report.image_is_str

\* line 129: "if nearby_users"
HasNearby_always(nearby_users) == TRUE
HasNearby(nearby_users) == nearby_users # <<>>

\* lines 87-101: is_verified, when the handler goes on
IsVerified_always(report, env) == TRUE
IsVerified(report, env) ==
    IF GateRaises(report) THEN report.simulation
    ELSE verify_emergency_with_gemini(GateCall(report, env)) = "True"

\* lines 50-168: the return the handler takes
Route(report, env) ==
    LET nearby_users == get_nearby_users(report.location, load_users)
    IN  IF ~Valid(report) THEN "invalid"
        ELSE IF GateRaises(report) /\ ~report.simulation THEN "gate_error"
        ELSE IF ~IsVerified(report, env)
             THEN (IF env.fault = "db" THEN "rejected_db_error" ELSE "rejected")
        ELSE IF env.fault = "db" THEN "db_error"
        ELSE IF env.fault = "users" THEN "user_error"
        ELSE IF ~HasNearby(nearby_users) THEN "no_users"
        ELSE IF ~NotifyRaises(nearby_users) THEN "alerted"
        ELSE IF report.simulation THEN "alert_error_simulation"
        ELSE "alert_error"

LogsVerified == {"user_error", "no_users", "alerted", "alert_error_simulation", "alert_error"}
Alerts == {"alerted", "alert_error_simulation", "alert_error"}

Response(route, nearby_users) ==
    CASE route = "invalid" -> [code |-> 400, status |-> "error", users_alerted |-> 0]
      [] route = "rejected" -> [code |-> 200, status |-> "rejected", users_alerted |-> 0]
      [] route = "no_users" -> [code |-> 200, status |-> "success", users_alerted |-> 0]
      [] route = "alerted" ->
            [code |-> 200, status |-> "success", users_alerted |-> Len(nearby_users)]
      [] route = "alert_error_simulation" ->
            [code |-> 200, status |-> "success", users_alerted |-> 0]
      [] OTHER -> [code |-> 500, status |-> "error", users_alerted |-> 0]

Called(route) ==
    CASE route = "invalid" -> {}
      [] route = "gate_error" -> {"gate"}
      [] route \in {"rejected", "rejected_db_error", "db_error"} -> {"gate", "ledger"}
      [] route = "user_error" -> {"gate", "ledger", "matcher"}
      [] route = "no_users" -> {"gate", "ledger", "matcher"}
      [] OTHER -> {"gate", "ledger", "matcher", "dispatcher"}

\* lines 87-147: the calls in the order the handler makes them
CallOrder(route) ==
    CASE route = "invalid" -> <<>>
      [] route = "gate_error" -> <<"gate">>
      [] route \in {"rejected", "rejected_db_error", "db_error"} -> <<"gate", "ledger">>
      [] route = "user_error" -> <<"gate", "ledger", "matcher">>
      [] route = "no_users" -> <<"gate", "ledger", "matcher">>
      [] OTHER -> <<"gate", "ledger", "matcher", "dispatcher">>

\* the routes on which get_nearby_users returns
Matches == {"no_users", "alerted", "alert_error_simulation", "alert_error"}

\* lines 44-168: receive_emergency
receive_emergency(report, env) ==
    \E route \in {Route(report, env)},
       nearby_users \in {get_nearby_users(report.location, load_users)},
       emergency_id \in {NextId(ledger)} :
        /\ request' = [report |-> report, env |-> env]
        /\ repeated' = (report = request.report)
        /\ response' = Response(route, nearby_users)
        /\ called' = Called(route)
        /\ call_order' = CallOrder(route)
        /\ matched' = IF route \in Matches THEN Matched(report.location, load_users)
                      ELSE matched
        /\ ledger' = IF route = "rejected" THEN Append(ledger, Row(ledger, FALSE))
                     ELSE IF route \in LogsVerified THEN Append(ledger, Row(ledger, TRUE))
                     ELSE ledger
        /\ IF route \in Alerts
           THEN \E creates \in CreateResults :
                    send_alert_to_users(nearby_users, emergency_id, creates)
           ELSE UNCHANGED <<processed_emergency_ids, sendVars, dispatched>>
        /\ UNCHANGED <<cfgVars, db_users, raceVars, queried>>

\* ---- src/server/app.py, the same handler as first written
\* lines 22-72: the return the handler takes. Every exception reaches the
\* except of line 70, and 'simulation' is not looked at.
AppRoute(report, env) ==
    LET nearby_users == get_nearby_users(report.location, load_users)
    IN  IF ~Valid(report) THEN "invalid"
        ELSE IF GateRaises(report) THEN "gate_error"
        ELSE IF verify_emergency_with_gemini(GateCall(report, env)) # "True"
             THEN (IF env.fault = "db" THEN "rejected_db_error" ELSE "rejected")
        ELSE IF env.fault = "db" THEN "db_error"
        ELSE IF env.fault = "users" THEN "user_error"
        ELSE IF ~HasNearby(nearby_users) THEN "no_users"
        ELSE IF ~NotifyRaises(nearby_users) THEN "alerted"
        ELSE "alert_error"

\* lines 29, 33, 49, 68, 72: the body is empty
AppResponse(route) ==
    CASE route = "invalid" -> [code |-> 400, status |-> "", users_alerted |-> 0]
      [] route \in {"rejected", "no_users", "alerted"} ->
            [code |-> 200, status |-> "", users_alerted |-> 0]
      [] OTHER -> [code |-> 500, status |-> "", users_alerted |-> 0]

\* lines 16-72: receive_emergency; line 63 passes no emergency_id
app_receive_emergency(report, env) ==
    \E route \in {AppRoute(report, env)},
       nearby_users \in {get_nearby_users(report.location, load_users)} :
        /\ request' = [report |-> report, env |-> env]
        /\ repeated' = (report = request.report)
        /\ response' = AppResponse(route)
        /\ called' = Called(route)
        /\ call_order' = CallOrder(route)
        /\ matched' = IF route \in Matches THEN Matched(report.location, load_users)
                      ELSE matched
        /\ ledger' = IF route = "rejected" THEN Append(ledger, Row(ledger, FALSE))
                     ELSE IF route \in LogsVerified THEN Append(ledger, Row(ledger, TRUE))
                     ELSE ledger
        /\ IF route \in Alerts
           THEN \E creates \in CreateResults :
                    send_alert_to_users(nearby_users, None, creates)
           ELSE UNCHANGED <<processed_emergency_ids, sendVars, dispatched>>
        /\ UNCHANGED <<cfgVars, db_users, raceVars, queried>>

\* lines 170-192: register_web_user
register_web_user(complete, location) ==
    /\ db_users' = IF complete
                   THEN <<WebUser(Len(db_users) + 1, location)>> \o db_users
                   ELSE db_users
    /\ UNCHANGED <<cfgVars, processed_emergency_ids, ledger, sendVars, reqVars,
                   dispatched, raceVars, askVars>>

\* The handlers above, counted against the bounds.
Receive(report, env) ==
    /\ handled < MaxReports
    /\ handled' = handled + 1
    /\ receive_emergency(report, env)
    /\ UNCHANGED <<fireVars, histVars, concVars, gateVars>>

\* Reports sent more than once: live reports of a fire, with evidence the
\* oracle or the fallback accepts and evidence it rejects.
RepeatReports ==
    {Report(RequiredFields, "lat_lon", ev, TRUE, SiteB, FALSE) :
        ev \in {AnEvidence,
                [image_url |-> [local |-> TRUE, words |-> {"office"}], emergency_type |-> "Fire"]}}
RepeatRequests == [report : RepeatReports, env : [oracle : ServerOracle, fault : {"none"}]]

Repeat(report, env) ==
    /\ handled < MaxRepeats
    /\ handled' = handled + 1
    /\ receive_emergency(report, env)
    /\ UNCHANGED <<fireVars, histVars, concVars, gateVars>>

AppRepeat(report, env) ==
    /\ handled < MaxRepeats
    /\ handled' = handled + 1
    /\ app_receive_emergency(report, env)
    /\ UNCHANGED <<fireVars, histVars, concVars, gateVars>>

Register(complete, location) ==
    /\ Len(db_users) < MaxDbUsers
    /\ register_web_user(complete, location)
    /\ UNCHANGED <<handled, fireVars, histVars, concVars, gateVars>>

\* ---- the matcher called by itself
\* Records a caller can pass: mock users 15 m and 1200 m from SiteB, users at
\* 99.996 m, 100 m and 100.004 m, and a user whose record has no location.
Candidates ==
    << load_users[2],
       [user_id |-> "user_inside", location |-> SiteB + 99996, fcm_token |-> TRUE],
       [user_id |-> "user_edge", location |-> SiteB + threshold * Metre, fcm_token |-> TRUE],
       [user_id |-> "user_outside", location |-> SiteB + 100004, fcm_token |-> TRUE],
       [user_id |-> "user_nowhere", location |-> None, fcm_token |-> TRUE],
       load_users[4] >>

RECURSIVE Pick(_, _)
\* The records of Candidates at the indices ixs, in the order of Candidates.
Pick(ixs, from) ==
    IF from > Len(Candidates) THEN <<>>
    ELSE IF from \in ixs THEN <<Candidates[from]>> \o Pick(ixs, from + 1)
    ELSE Pick(ixs, from + 1)

MatchLists ==
    {Pick(ixs, 1) : ixs \in {s \in SUBSET (1..Len(Candidates)) : Cardinality(s) <= MaxUsers}}

Match(emergency_location, users) ==
    /\ matched' = Matched(emergency_location, users)
    /\ UNCHANGED <<cfgVars, storeVars, sendVars, reqVars, dispatched, handled, raceVars,
                   call_order, queried>>
    /\ UNCHANGED <<fireVars, histVars, concVars, gateVars>>

\* ---- the emergencies table written and queried
\* queried holds what the query just answered returned; it is forgotten when
\* the table or the time changes.
Log(verified) ==
    /\ Len(ledger) < MaxRows
    /\ ledger' = Append(ledger, Row(ledger, verified))
    /\ queried' = NoQuery
    /\ UNCHANGED <<cfgVars, processed_emergency_ids, db_users, sendVars, reqVars, dispatched,
                   handled, raceVars, matched, call_order>>
    /\ UNCHANGED <<fireVars, histVars, concVars, gateVars>>

\* Time passes: a second, or a second less than half an hour.
TickDeltas == {1, Hour \div 2 - 1}

Tick(d) ==
    /\ handled < MaxTicks
    /\ handled' = handled + 1
    /\ clock' = clock + d
    /\ UNCHANGED <<fire_detected_start, last_fire_confidence, last_detection_image,
                   emergency_sent, last_emergency_time, sent, delivery>>
    /\ queried' = NoQuery
    /\ UNCHANGED <<cfgVars, storeVars, sendVars, reqVars, dispatched, raceVars, matched,
                   call_order>>
    /\ UNCHANGED <<histVars, concVars, gateVars>>

\* A query changes nothing, so one made while another's answer is held
\* returns what it would return after it.
QueryFrame ==
    /\ queried = NoQuery
    /\ UNCHANGED <<cfgVars, storeVars, sendVars, reqVars, dispatched, handled, raceVars,
                   matched, call_order>>
    /\ UNCHANGED <<fireVars, histVars, concVars, gateVars>>

QueryRecent(window) ==
    /\ QueryFrame
    /\ \E rows \in get_recent_emergencies(window) :
           queried' = [query |-> "recent", rows |-> rows, at |-> clock,
                       since |-> clock - window, n |-> Len(ledger)]

QueryAll ==
    /\ QueryFrame
    /\ \E rows \in get_all_emergencies :
           queried' = [query |-> "all", rows |-> rows, at |-> clock, since |-> None,
                       n |-> Len(ledger)]

\* ---- the dispatcher called by itself
\* Lists get_nearby_users returns: mock users, rows of the users table, both.
WebUsers == <<WebUser(1, SiteB), WebUser(2, SiteB)>>
UserLists == {SubSeq(load_users, 1, 1), SubSeq(load_users, 2, 3),
              SubSeq(load_users, 2, 3) \o WebUsers, WebUsers}
\* emergency_id arguments: None (server/app.py line 63 passes none) and ids.
DispatchIds == {None} \cup 1..MaxIds

Dispatch(users, emergency_id) ==
    /\ handled < MaxDispatches
    /\ handled' = handled + 1
    /\ \E creates \in CreateResults : send_alert_to_users(users, emergency_id, creates)
    /\ UNCHANGED <<cfgVars, ledger, db_users, reqVars, raceVars, askVars>>
    /\ UNCHANGED <<fireVars, histVars, concVars, gateVars>>

\* twilio_whatsapp.py lines 196-197 run again in a new process: the set of
\* line 39 is new, the environment (the configuration), the database and the
\* messages already delivered are what they were.
Restart ==
    /\ processed_emergency_ids' = {}
    /\ UNCHANGED <<cfgVars, ledger, db_users, sendVars, reqVars, dispatched, handled, raceVars,
                   askVars>>
    /\ UNCHANGED <<fireVars, histVars, concVars, gateVars>>

\* ---- send_whatsapp_alert line by line, called by several threads
RaceIds == 1..MaxIds

WGoto(t, l) == wpc' = [wpc EXCEPT ![t] = l]

RaceFrame == UNCHANGED <<cfgVars, ledger, db_users, alerts, reqVars, dispatched, askVars,
                         fireVars, histVars, concVars, gateVars>>

\* line 119: the call
W119(t, emergency_id) ==
    /\ wpc[t] = "idle"
    /\ handled < MaxDispatches
    /\ handled' = handled + 1
    /\ wid' = [wid EXCEPT ![t] = emergency_id]
    /\ WGoto(t, "121")
    /\ UNCHANGED <<processed_emergency_ids, whatsapp>>
    /\ RaceFrame

\* lines 121-127: no client or no contacts
W121(t) ==
    /\ wpc[t] = "121"
    /\ WGoto(t, IF ~client \/ emergency_contacts = <<>> THEN "idle" ELSE "130")
    /\ UNCHANGED <<processed_emergency_ids, whatsapp, wid, handled>>
    /\ RaceFrame

\* line 130 with line 65: the membership test of is_emergency_already_processed
W65(t) ==
    /\ wpc[t] = "130"
    /\ WGoto(t, IF ~Truthy(wid[t]) THEN "147"
                ELSE IF is_emergency_already_processed(wid[t]) THEN "idle"
                ELSE "71")
    /\ UNCHANGED <<processed_emergency_ids, whatsapp, wid, handled>>
    /\ RaceFrame

\* line 71: the insertion
W71(t) ==
    /\ wpc[t] = "71"
    /\ processed_emergency_ids' = processed_emergency_ids \cup {wid[t]}
    /\ WGoto(t, "147")
    /\ UNCHANGED <<whatsapp, wid, handled>>
    /\ RaceFrame

\* lines 147-164: the messages
W147(t) ==
    /\ wpc[t] = "147"
    /\ whatsapp' = whatsapp \o [i \in 1..Len(emergency_contacts) |->
                                  [emergency_id |-> wid[t], to |-> emergency_contacts[i]]]
    /\ WGoto(t, "idle")
    /\ UNCHANGED <<processed_emergency_ids, wid, handled>>
    /\ RaceFrame

\* ------------------------------------------------------------------ history
\* The calls made since construction: "empty" none; "steady85" samples of 85
\* one second apart; "steady" samples at or above the threshold one second
\* apart; "high" samples at or above the threshold; "dipped" samples only, one
\* of them below the threshold before any post; "broken" anything else.
AllHigh == {"steady85", "steady", "high"}

HistAfterSample(h, c, d) ==
    IF h \in {"broken", "dipped"} THEN h
    ELSE IF ~(c >= confidence_threshold)
         THEN (IF h \in AllHigh /\ sent = <<>> THEN "dipped" ELSE "broken")
    ELSE IF h = "empty" THEN (IF c = 85 THEN "steady85" ELSE "steady")
    ELSE IF h = "steady85" /\ d.by = 1 THEN (IF c = 85 THEN "steady85" ELSE "steady")
    ELSE IF h = "steady" /\ d.by = 1 THEN "steady"
    ELSE "high"

Emitted == Len(sent') > Len(sent)

Budget(d) ==
    /\ calls + d.count <= MaxCalls
    /\ calls' = calls + d.count

SampleCall(c, img, d) ==
    /\ process_detection(c, img, d)
    /\ Budget(d)
    /\ op' = "process_detection"
    /\ runStart' = IF c >= confidence_threshold
                   THEN (IF runStart = None THEN clock' ELSE runStart)
                   ELSE None
    /\ hist' = HistAfterSample(hist, c, d)
    /\ emitted_at' = IF Emitted THEN clock' ELSE emitted_at
    /\ UNCHANGED <<concVars, gateVars, srvVars>>

ResetCall(d) ==
    /\ reset_emergency_state(d)
    /\ Budget(d)
    /\ op' = "reset_emergency_state"
    /\ hist' = "broken"
    /\ emitted_at' = None
    /\ UNCHANGED <<runStart, concVars, gateVars, srvVars>>

RetryCall(d) ==
    /\ retry_last_emergency(d)
    /\ Budget(d)
    /\ op' = "retry_last_emergency"
    /\ hist' = "broken"
    /\ UNCHANGED <<runStart, emitted_at, concVars, gateVars, srvVars>>

\* The calls, the posts since the last reset not counted.
Sample(c, img, d) == SampleCall(c, img, d) /\ UNCHANGED posts_since_reset
Reset(d) == ResetCall(d) /\ UNCHANGED posts_since_reset
Retry(d) == RetryCall(d) /\ UNCHANGED posts_since_reset

\* The calls, the posts since the last reset counted.
CountedSample(c, img, d) ==
    /\ SampleCall(c, img, d)
    /\ posts_since_reset' = posts_since_reset + Len(sent') - Len(sent)

CountedReset(d) ==
    /\ ResetCall(d)
    /\ posts_since_reset' = 0

CountedRetry(d) ==
    /\ RetryCall(d)
    /\ posts_since_reset' = posts_since_reset + Len(sent') - Len(sent)

\* lines 18-43: __init__
InitFire ==
    /\ clock = StartTime
    /\ fire_detected_start = None
    /\ last_fire_confidence = 0
    /\ last_detection_image = None
    /\ emergency_sent = FALSE
    /\ last_emergency_time = 0
    /\ sent = <<>>
    /\ delivery = "none"
    /\ op = "init"
    /\ runStart = None
    /\ hist = "empty"
    /\ emitted_at = None
    /\ calls = 0
    /\ posts_since_reset = 0
    /\ pc = [t \in Threads |-> "idle"]
    /\ loc = [t \in Threads |-> Idle]

\* No call of the gate is followed.
NoCall == [available |-> TRUE, oracle |-> Failed("none"), path |-> [local |-> TRUE, words |-> {}],
           etype |-> "Fire"]

NoReport == [fields |-> {}, shape |-> "lat_lon", emergency_type |-> "Fire",
             image_url |-> [local |-> TRUE, words |-> {}], image_is_str |-> TRUE,
             location |-> SiteFar, simulation |-> FALSE]
NoRequest == [report |-> NoReport, env |-> NoEnv]
NoResponse == [code |-> 0, status |-> "none", users_alerted |-> 0]
NoMatch == [called |-> FALSE, emergency_location |-> SiteFar, users |-> <<>>,
            all_users |-> <<>>, users_after |-> <<>>, nearby_users |-> <<>>]
NoDispatch == [emergency_id |-> None, users |-> <<>>, whatsapp_success |-> FALSE,
               messages |-> 0, notified |-> 0, raised |-> FALSE, again |-> FALSE]

\* The server process after start, before any request: init_db on an empty
\* database, TwilioWhatsAppNotifier.__init__ (twilio_whatsapp.py lines 25-61).
InitStores ==
    /\ processed_emergency_ids = {}
    /\ ledger = <<>>
    /\ db_users = <<>>
    /\ whatsapp = <<>>
    /\ alerts = <<>>
    /\ request = NoRequest
    /\ response = NoResponse
    /\ called = {}
    /\ repeated = FALSE
    /\ dispatched = NoDispatch
    /\ handled = 0
    /\ wpc = [t \in Threads |-> "idle"]
    /\ wid = [t \in Threads |-> None]
    /\ matched = NoMatch
    /\ call_order = <<>>
    /\ queried = NoQuery

\* No key and no Twilio credentials in the environment.
InitUnconfigured ==
    /\ available = FALSE
    /\ client = FALSE
    /\ emergency_contacts = <<>>
    /\ InitStores

\* The configurations the environment can give: a key or none, Twilio
\* credentials or none, and with credentials any number of contacts.
InitConfigured ==
    /\ available \in BOOLEAN
    /\ client \in BOOLEAN
    /\ emergency_contacts \in {SubSeq(Contacts, 1, n) : n \in 0..contact_slots}
    /\ client = FALSE => emergency_contacts = <<>>
    /\ InitStores

Init ==
    /\ InitFire
    /\ gate_in = NoCall
    /\ gate_out = "idle"
    /\ InitUnconfigured

Next ==
    \/ \E c \in Conf, img \in Images, d \in Steps : Sample(c, img, d)
    \/ \E d \in Steps : Reset(d)
    \/ \E d \in Steps : Retry(d)

Spec == Init /\ [][Next]_vars

NextLong ==
    \/ \E c \in Conf, img \in Images, d \in LongSteps : Sample(c, img, d)
    \/ \E d \in LongSteps : Reset(d)
    \/ \E d \in LongSteps : Retry(d)

SpecLong == Init /\ [][NextLong]_vars

\* The calls of Spec with the posts between resets counted.
NextPosts ==
    \/ \E c \in Conf, img \in Images, d \in Steps : CountedSample(c, img, d)
    \/ \E d \in Steps : CountedReset(d)
    \/ \E d \in Steps : CountedRetry(d)

SpecPosts == Init /\ [][NextPosts]_vars

\* Threads calling process_detection concurrently, and nothing else.
ConcDeltas == {0, confirmation_duration}

NextConc ==
    \/ \E t \in Threads, c \in Conf, d \in ConcDeltas : L158(t, c, d)
    \/ \E t \in Threads : L162(t)
    \/ \E t \in Threads : L164(t)
    \/ \E t \in Threads : L174(t)
    \/ \E t \in Threads : L181(t)
    \/ \E t \in Threads : L183(t)
    \/ \E t \in Threads : L185(t)
    \/ \E t \in Threads : L196(t)
    \/ \E t \in Threads : L197(t)
    \/ \E t \in Threads : L200(t)
    \/ \E t \in Threads : L213(t)

SpecConc == Init /\ [][NextConc]_vars

\* One call of verify_emergency_with_gemini for each input followed.
InitGate ==
    /\ InitFire
    /\ gate_in \in GateCalls
    /\ gate_out = "pending"
    /\ InitUnconfigured

NextGate == Verify

SpecGate == InitGate /\ [][NextGate]_vars

\* The server: requests to /emergency and registrations, one after the other.
InitServer ==
    /\ InitFire
    /\ gate_in = NoCall
    /\ gate_out = "idle"
    /\ InitConfigured

NextServer ==
    \/ \E req \in Requests : Receive(req.report, req.env)
    \/ \E complete \in BOOLEAN, location \in RegisterSites : Register(complete, location)

SpecServer == InitServer /\ [][NextServer]_vars

\* Either server, sent the same few reports again and again.
NextRepeat ==
    \/ \E req \in RepeatRequests : Repeat(req.report, req.env)
    \/ \E req \in RepeatRequests : AppRepeat(req.report, req.env)

SpecRepeat == InitServer /\ [][NextRepeat]_vars

\* The dispatcher: calls of send_alert_to_users one after the other, and
\* restarts of the process.
NextDispatch ==
    \/ \E users \in UserLists, emergency_id \in DispatchIds : Dispatch(users, emergency_id)
    \/ Restart

SpecDispatch == InitServer /\ [][NextDispatch]_vars

\* The matcher called with lists of its caller's choice, while users register.
NextMatcher ==
    \/ \E emergency_location \in Sites, users \in MatchLists : Match(emergency_location, users)
    \/ \E complete \in BOOLEAN, location \in RegisterSites : Register(complete, location)

SpecMatcher == InitServer /\ [][NextMatcher]_vars

\* The emergencies table: rows logged, time passing, the two queries.
NextLedger ==
    \/ \E verified \in BOOLEAN : Log(verified)
    \/ \E d \in TickDeltas : Tick(d)
    \/ \E window \in Windows : QueryRecent(window)
    \/ QueryAll

SpecLedger == Init /\ [][NextLedger]_vars

\* Threads calling send_whatsapp_alert concurrently, and nothing else.
NextRace ==
    \/ \E t \in Threads, emergency_id \in RaceIds : W119(t, emergency_id)
    \/ \E t \in Threads : W121(t)
    \/ \E t \in Threads : W65(t)
    \/ \E t \in Threads : W71(t)
    \/ \E t \in Threads : W147(t)

SpecRace == InitServer /\ [][NextRace]_vars

\* ------------------------------------------------------------------- claims
LastPost == sent[Len(sent)]

\* C1: from construction, samples that are all at or above the threshold
\* and span at least confirmation_duration have caused exactly one post, and
\* samples all at or above the threshold never more than one.
C1_ExactlyOneReport ==
    hist \in AllHigh =>
        /\ Len(sent) <= 1
        /\ clock - runStart >= confirmation_duration => Len(sent) = 1

\* Samples at or above the threshold went on past a whole cooldown.
C1_Witness ==
    /\ hist \in AllHigh
    /\ clock - runStart >= confirmation_duration + emergency_cooldown
    /\ Len(sent) = 1

\* C2: a process_detection call made less than emergency_cooldown seconds
\* after process_detection posted, with no reset since, posts nothing.
C2_NoEmissionInCooldown ==
    [][(/\ op' = "process_detection"
        /\ emitted_at # None
        /\ clock' - emitted_at < emergency_cooldown) => sent' = sent]_vars

\* A sample at or above the threshold was taken in the cooldown, its episode
\* older than confirmation_duration, and there is still one post.
C2_Witness ==
    /\ op = "process_detection"
    /\ emitted_at # None
    /\ clock > emitted_at
    /\ clock - emitted_at < emergency_cooldown
    /\ runStart # None
    /\ runStart > emitted_at
    /\ clock - runStart >= confirmation_duration
    /\ Len(sent) = 1

\* C3: when an episode began emergency_cooldown seconds or more after the
\* last post, with no reset since, and its samples have stayed at or above
\* the threshold for confirmation_duration, a report was posted in it.
C3_NewEpisodeAfterCooldownEmits ==
    (/\ op = "process_detection"
     /\ emitted_at # None
     /\ runStart # None
     /\ runStart - emitted_at >= emergency_cooldown
     /\ clock - runStart >= confirmation_duration)
    => \E i \in 1..Len(sent) : sent[i].id >= runStart

\* C4: a sample below the threshold leaves fire_detected_start None and posts
\* nothing, and process_detection posts only when the unbroken run of samples
\* at or above the threshold is confirmation_duration old.
C4_DipAbandonsEpisode ==
    [][/\ (op' = "process_detection" /\ runStart' = None)
            => (fire_detected_start' = None /\ sent' = sent)
       /\ (op' = "process_detection" /\ Len(sent') > Len(sent))
            => (runStart' # None /\ clock' - runStart' >= confirmation_duration)]_vars

\* An episode was abandoned before it was confirmed, and a later one posted
\* after its own confirmation_duration.
C4_Witness ==
    /\ hist = "dipped"
    /\ Len(sent) = 1
    /\ op = "process_detection"
    /\ emitted_at = clock
    /\ clock - runStart = confirmation_duration
    /\ runStart > StartTime

\* C5: with threads calling process_detection and no reset, at most one
\* report is posted, however the calls interleave.
C5_OnePostUnderInterleaving == Len(sent) <= 1

\* C6: after a post by process_detection that failed, with no reset since,
\* emergency_sent is true and last_emergency_time is the time of that post,
\* and a later process_detection call posts nothing.
C6_FailureKeepsCooldown ==
    /\ []((delivery \in Failures /\ emitted_at # None)
            => (emergency_sent /\ last_emergency_time = emitted_at))
    /\ [][(delivery \in Failures /\ emitted_at # None /\ op' = "process_detection")
            => sent' = sent]_vars

\* A sample at or above the threshold was processed after the failed post.
C6_Witness ==
    /\ delivery \in Failures
    /\ emitted_at # None
    /\ op = "process_detection"
    /\ clock > emitted_at
    /\ fire_detected_start # None
    /\ Len(sent) = 1

\* C7: once retry_last_emergency has been called after a post by
\* process_detection, with no reset since, either that post had been
\* delivered or it was posted again with the same id and timestamp.
C7_RetryResendsSameReport ==
    (/\ op = "retry_last_emergency"
     /\ emitted_at # None
     /\ sent # <<>>)
    => \/ (LastPost.via = "process_detection" /\ delivery = "ok")
       \/ /\ Len(sent) >= 2
          /\ LastPost.via = "retry_last_emergency"
          /\ LastPost.id = sent[Len(sent) - 1].id
          /\ LastPost.timestamp = sent[Len(sent) - 1].timestamp

\* C8: only reset_emergency_state takes emergency_sent from true to false.
C8_OnlyResetClearsFlag ==
    [][(emergency_sent /\ ~emergency_sent') => op' = "reset_emergency_state"]_vars

\* retry_last_emergency was called with emergency_sent true after a failed
\* post, and the flag is still true.
C8_Witness ==
    /\ op = "retry_last_emergency"
    /\ emergency_sent
    /\ emitted_at # None
    /\ delivery \in Failures

\* C9: while the samples since construction come one second apart and are
\* all at or above the threshold (0.85, or 0.80 itself), nothing is posted up
\* to the fourth second and the sample of the fifth second posts.
C9_EmissionAtFiveSeconds ==
    hist \in {"steady85", "steady"} =>
        /\ clock - runStart <= 4 => sent = <<>>
        /\ clock - runStart >= 5 =>
              (Len(sent) = 1 /\ sent[1].id = runStart + 5)

\* Samples of 0.85 at t = 0..5: the sample at t = 5 posted.
C9_Witness ==
    /\ hist = "steady85"
    /\ clock - runStart = 5
    /\ Len(sent) = 1
    /\ sent[1].id = clock

\* C10: for a response text the gate returns True exactly when the text
\* holds a yes and no no, whatever the case of the letters: a text with both
\* or with neither, like a text with a no alone, is rejected.
HoldsYes(text) ==
    \E i \in 1..(Len(text) - 2) :
        text[i] \in {"y", "Y"} /\ text[i + 1] \in {"e", "E"} /\ text[i + 2] \in {"s", "S"}
HoldsNo(text) ==
    \E i \in 1..(Len(text) - 1) : text[i] \in {"n", "N"} /\ text[i + 1] \in {"o", "O"}

C10_AmbiguousIsRejected ==
    (gate_in.available /\ gate_in.oracle.kind = "text" /\ gate_out # "pending") =>
        LET text == gate_in.oracle.text IN
        /\ gate_out \in {"True", "False"}
        /\ gate_out = "True" <=> (HoldsYes(text) /\ ~HoldsNo(text))

\* A response with both markers was rejected.
C10_Witness ==
    /\ gate_in.available
    /\ gate_in.oracle.kind = "text"
    /\ HoldsYes(gate_in.oracle.text)
    /\ HoldsNo(gate_in.oracle.text)
    /\ gate_out = "False"

\* The last request was handled, passed validation and came from a live source.
Handled == handled > 0
LastRow == ledger[Len(ledger)]
OracleFailed(call) == ~call.available \/ call.oracle.kind # "text"
Downstream == {"matcher", "dispatcher"}

\* C11: in a live context (the report does not carry simulation), when the
\* oracle call fails (no answer came back, or no API key is configured) the
\* report is answered as rejected, its ledger row is Rejected, and neither the
\* matcher nor the dispatcher is called, whatever the evidence and the type.
C11_LiveFailureFailsClosed ==
    (/\ Handled
     /\ Valid(request.report)
     /\ ~request.report.simulation
     /\ request.report.image_is_str
     /\ request.env.fault = "none"
     /\ OracleFailed(GateCall(request.report, request.env)))
    => (/\ response.status = "rejected"
        /\ ledger # <<>>
        /\ ~LastRow.gemini_verified
        /\ called \cap Downstream = {})

\* C12: what verify_emergency_with_gemini hands to the handler when the oracle
\* call did not complete is never a value it hands over when the oracle
\* answered (the answers give True and False).
C12_FailureIsDistinguishable ==
    (gate_out # "pending" /\ OracleFailed(gate_in)) => gate_out \notin {"True", "False"}

\* C13: every request that passes validation leaves exactly one more row in
\* the ledger, also when the gate, the matcher or the dispatcher raises (the
\* ledger's own failures set aside).
C13_OneRowPerValidReport ==
    [][(/\ handled' = handled + 1
        /\ Valid(request'.report)
        /\ request'.env.fault # "db")
       => Len(ledger') = Len(ledger) + 1]_vars

\* The gate returned a value the handler takes as "not verified".
GateRejected(req) ==
    /\ Valid(req.report)
    /\ req.report.image_is_str
    /\ verify_emergency_with_gemini(GateCall(req.report, req.env)) # "True"

\* C14: when the gate rejects a report the handler writes the Rejected row and
\* stops: the matcher and the dispatcher are not called, no message and no
\* notification goes out, and the answer is "rejected".
C14_RejectedStops ==
    [][(handled' = handled + 1 /\ GateRejected(request'))
       => (/\ called' \cap Downstream = {}
           /\ UNCHANGED <<whatsapp, alerts, processed_emergency_ids, dispatched>>
           /\ request'.env.fault = "none"
                => (/\ ledger' = Append(ledger, [id |-> Len(ledger) + 1,
                                                 gemini_verified |-> FALSE,
                                                 created_at |-> clock])
                    /\ response'.status = "rejected"))]_vars

C14_Witness ==
    /\ Handled
    /\ GateRejected(request)
    /\ request.env.oracle = OracleNo
    /\ available
    /\ response.status = "rejected"
    /\ ledger # <<>>

\* A report that lacks a required field, or whose location lacks lat or lon.
Lacking(report) == report.fields # RequiredFields \/ report.shape \in {"no_lat", "no_lon"}

\* C20: a report that lacks emergency_type, location, image_url, timestamp or
\* building, or whose location lacks lat or lon, is answered with an error and
\* nothing else happens: no gate call, no row, no message, no notification.
C20_InvalidReportHasNoEffect ==
    [][(handled' = handled + 1 /\ Lacking(request'.report))
       => (/\ response'.code = 400
           /\ response'.status = "error"
           /\ called' = {}
           /\ UNCHANGED <<ledger, whatsapp, alerts, processed_emergency_ids, dispatched>>)]_vars

C20_Witness ==
    /\ Handled
    /\ request.report.shape = "no_lon"
    /\ "location" \in request.report.fields
    /\ response.code = 400
    /\ ledger = <<>>

\* No message and no notification of one incident went twice to one receiver.
Once(log) ==
    \A i, j \in 1..Len(log) :
        (i < j /\ log[i].emergency_id # None) => log[i] # log[j]

\* C15: dispatching one incident twice to the same recipients sends nothing
\* twice, on the WhatsApp channel and on the user notification channel.
C15_SecondDispatchSendsNothing == Once(whatsapp) /\ Once(alerts)

\* C16: in one dispatch every matched recipient and every contact is attempted,
\* whatever happens for the others: a user without fcm_token does not keep the
\* users after it from being notified.
C16_EveryRecipientAttempted ==
    /\ dispatched.notified = Len(dispatched.users)
    /\ dispatched.messages \in {0, Len(emergency_contacts)}

\* C17: the dedup store outlives the process: an incident whose WhatsApp
\* messages went out is in processed_emergency_ids ever after, restarts included.
C17_DedupSurvivesRestart ==
    \A i \in 1..Len(whatsapp) :
        whatsapp[i].emergency_id # None => whatsapp[i].emergency_id \in processed_emergency_ids

\* C18: under every interleaving of the membership test (line 65) and the
\* insertion (line 71) of concurrent send_whatsapp_alert calls for one
\* emergency_id, the messages of that id go out once.
C18_OneSendUnderInterleaving == Once(whatsapp)

\* The messages a dispatch sends when no dedup holds it back.
AllMessages == IF client /\ emergency_contacts # <<>> THEN Len(emergency_contacts) ELSE 0

\* C19: a report identical to the one before it gets a row of its own with an
\* id no other row has, the rows before stay as they were, its row carries the
\* verdict of its own gate call, and when it is dispatched the messages go to
\* every contact: the dedup entry of the first report does not hold it back.
C19_IdenticalReportsAreIndependent ==
    [][(/\ handled' = handled + 1
        /\ repeated'
        /\ "ledger" \in called
        /\ "ledger" \in called')
       => (/\ Len(ledger') = Len(ledger) + 1
           /\ SubSeq(ledger', 1, Len(ledger)) = ledger
           /\ \A i \in 1..Len(ledger) : ledger[i].id # ledger'[Len(ledger')].id
           /\ ledger'[Len(ledger')].gemini_verified = ~GateRejected(request')
           /\ "dispatcher" \in called'
                => (/\ dispatched'.messages = AllMessages
                    /\ dispatched'.notified = Len(dispatched'.users)
                    /\ Len(whatsapp') = Len(whatsapp) + AllMessages))]_vars

C19_Witness ==
    /\ handled = 2
    /\ repeated
    /\ Len(ledger) = 2
    /\ ledger[1].gemini_verified /\ ledger[2].gemini_verified
    /\ ledger[1].id # ledger[2].id
    /\ \E i, j \in 1..Len(whatsapp) :
            whatsapp[i].emergency_id = ledger[1].id /\ whatsapp[j].emergency_id = ledger[2].id

\* The step posted a report.
Posted == Len(sent') = Len(sent) + 1

\* C25: a report is posted only when the running episode has lasted
\* confirmation_duration: no call of process_detection, reset_emergency_state
\* or retry_last_emergency posts while no episode runs or the episode is
\* younger than that.
C25_NoPostWhileUnconfirmed ==
    [][Posted => (/\ fire_detected_start' # None
                  /\ clock' - fire_detected_start' >= confirmation_duration)]_vars

\* C26: from the start or from a reset_emergency_state to the next one, the
\* calls of process_detection and retry_last_emergency post at most once.
C26_OnePostBetweenResets == posts_since_reset <= 1

\* C27: whenever emergency_sent is false last_emergency_time is 0, so the
\* "cooldown active" test of line 187 (made only when emergency_sent is false)
\* is false at every reachable time.
C27_UnsentMeansNoCooldown ==
    ~emergency_sent => (/\ last_emergency_time = 0
                        /\ ~CooldownActive(clock, last_emergency_time))

C27_Witness ==
    /\ ~emergency_sent
    /\ op = "reset_emergency_state"
    /\ sent # <<>>
    /\ LastPost.via = "process_detection"
    /\ last_emergency_time = 0

\* C28: reset_emergency_state leaves the detection state as __init__ made it,
\* and after it an episode that has lasted confirmation_duration posts, once,
\* also within emergency_cooldown of the post before.
C28_ResetRestoresInitialState ==
    [][/\ op' = "reset_emergency_state"
          => (/\ fire_detected_start' = None
              /\ emergency_sent' = FALSE
              /\ last_fire_confidence' = 0
              /\ last_detection_image' = None
              /\ last_emergency_time' = 0)
       /\ (/\ op' = "process_detection"
           /\ ~emergency_sent
           /\ fire_detected_start' # None
           /\ clock' - fire_detected_start' >= confirmation_duration)
          => (Posted /\ emergency_sent')
       /\ (op' = "process_detection" /\ emergency_sent) => sent' = sent]_vars

C28_Witness ==
    /\ Len(sent) = 2
    /\ sent[1].via = "process_detection"
    /\ sent[2].via = "process_detection"
    /\ sent[2].timestamp - sent[1].timestamp < emergency_cooldown
    /\ emitted_at = sent[2].timestamp
    /\ emergency_sent
    /\ op = "process_detection"

\* C21: what get_nearby_users returns is a function of its arguments: a call
\* with the arguments of the call before returns what that call returned,
\* whatever happened to the users table in between.
C21_MatcherIsPure ==
    [][(/\ matched.called
        /\ matched'.called
        /\ matched'.emergency_location = matched.emergency_location
        /\ matched'.users = matched.users)
       => matched'.nearby_users = matched.nearby_users]_vars

\* The records get_nearby_users returned, without the distance it added.
Returned ==
    [i \in 1..Len(matched.nearby_users) |->
        [user_id |-> matched.nearby_users[i].user_id,
         location |-> matched.nearby_users[i].location,
         fcm_token |-> matched.nearby_users[i].fcm_token]]

\* The records the loop of line 52 went through that have a location at most
\* threshold metres from the incident.
InRadius ==
    SelectSeq(matched.all_users,
              LAMBDA user : /\ user.location # None
                            /\ Distance(matched.emergency_location, user.location)
                                   <= threshold * Metre)

\* C22: get_nearby_users returns exactly the records at most threshold metres
\* from the incident, the one at threshold metres included, each with its
\* distance to the centimetre; a record without location is left out, and the
\* records passed in are as they were.
C22_ExactlyTheNearby ==
    matched.called =>
        /\ Returned = InRadius
        /\ \A i \in 1..Len(matched.nearby_users) :
              LET user == matched.nearby_users[i]
                  distance == Distance(matched.emergency_location, user.location)
              IN  /\ user.distance_meters - distance \in -5..5
                  /\ user.distance_meters % 10 = 0
        /\ matched.users_after = matched.users

C22_Witness ==
    /\ matched.called
    /\ matched.emergency_location = SiteB
    /\ \E i \in 1..Len(matched.users) : matched.users[i].location = None
    /\ \E i \in 1..Len(matched.nearby_users) :
          /\ matched.nearby_users[i].location = SiteB + threshold * Metre
          /\ matched.nearby_users[i].distance_meters = threshold * Metre
    /\ \E i \in 1..Len(matched.users) : matched.users[i].location = SiteB + 100004
    /\ Len(matched.nearby_users) = 1

\* The rows of the emergencies table when the last query was made.
RowsThen == {ledger[i] : i \in 1..queried.n}

\* C23: get_recent_emergencies returns only rows that are verified and were
\* created within the window asked for, the newest first, never a rejected
\* row; get_all_emergencies returns every row.
C23_RecentAreVerifiedAndNewestFirst ==
    /\ queried.query = "recent" =>
          /\ \A i \in 1..Len(queried.rows) :
                \E row \in RowsThen :
                    /\ row.id = queried.rows[i].id
                    /\ row.created_at = queried.rows[i].created_at
                    /\ row.gemini_verified
                    /\ row.created_at > queried.since
                    /\ row.created_at <= queried.at
          /\ \A i, j \in 1..Len(queried.rows) :
                i < j => queried.rows[i].created_at >= queried.rows[j].created_at
    /\ queried.query = "all" =>
          /\ {queried.rows[i] : i \in 1..Len(queried.rows)} = RowsThen
          /\ Len(queried.rows) = queried.n

C23_Witness ==
    /\ queried.query = "recent"
    /\ Len(queried.rows) = 2
    /\ queried.rows[1].created_at > queried.rows[2].created_at
    /\ \E row \in RowsThen : ~row.gemini_verified /\ row.created_at > queried.since
    /\ \E row \in RowsThen : row.gemini_verified /\ row.created_at = queried.since

\* C24: the handler appends the row of a report to the emergencies table
\* before it calls the gate: in the calls of a request the gate never comes
\* without the ledger before it.
C24_RecordBeforeVerification ==
    \A i \in 1..Len(call_order) :
        call_order[i] = "gate" => \E j \in 1..(i - 1) : call_order[j] = "ledger"

\* C29: a call of send_whatsapp_alert with an id that passes the client and
\* contact checks leaves the id in processed_emergency_ids whether or not any
\* message was created, and a call with an id already there attempts no
\* message and returns false.
C29_MarkedBeforeSend ==
    [][(/\ handled' = handled + 1
        /\ Truthy(dispatched'.emergency_id)
        /\ client
        /\ emergency_contacts # <<>>)
       => (/\ dispatched'.emergency_id \in processed_emergency_ids'
           /\ dispatched'.emergency_id \in processed_emergency_ids
                => (whatsapp' = whatsapp /\ ~dispatched'.whatsapp_success))]_vars

C29_Witness ==
    /\ handled >= 2
    /\ dispatched.emergency_id \notin {None, 0}
    /\ client
    /\ emergency_contacts # <<>>
    /\ dispatched.emergency_id \in processed_emergency_ids
    /\ dispatched.messages = 0
    /\ ~dispatched.whatsapp_success
    /\ Len(whatsapp) = Len(emergency_contacts)
    /\ \A i \in 1..Len(whatsapp) : whatsapp[i].emergency_id = dispatched.emergency_id

\* C30: when a request is logged as verified and the matcher returns, the
\* dispatcher is called, with the id of the row, exactly when the matcher
\* returned some user; when it returned none no WhatsApp message and no user
\* notification goes out, and the row stays verified.
C30_DispatchIffNearby ==
    [][(/\ handled' = handled + 1
        /\ Len(ledger') = Len(ledger) + 1
        /\ ledger'[Len(ledger')].gemini_verified
        /\ request'.env.fault # "users")
       => (/\ matched'.called
           /\ matched'.emergency_location = request'.report.location
           /\ "dispatcher" \in called' <=> matched'.nearby_users # <<>>
           /\ "dispatcher" \in called' =>
                 /\ dispatched'.emergency_id = ledger'[Len(ledger')].id
                 /\ dispatched'.users =
                        [i \in 1..Len(matched'.nearby_users) |-> matched'.nearby_users[i].user_id]
           /\ matched'.nearby_users = <<>> =>
                 /\ UNCHANGED <<whatsapp, alerts, processed_emergency_ids, dispatched>>
                 /\ response'.users_alerted = 0)]_vars

C30_Witness ==
    /\ handled = 1
    /\ Len(ledger) = 1
    /\ ledger[1].gemini_verified
    /\ matched.called
    /\ matched.nearby_users = <<>>
    /\ "matcher" \in called
    /\ "dispatcher" \notin called
    /\ client
    /\ emergency_contacts # <<>>
    /\ whatsapp = <<>>
    /\ alerts = <<>>
    /\ response.code = 200

====
